---- MODULE Spec2Model ----
(***************************************************************************)
(* Code block rendering of streamdown-render (code.rs) and the Colodore    *)
(* palette lookup (colors.rs).                                             *)
(*                                                                         *)
(* A Rust string is modelled as a sequence of tokens.  A token is either   *)
(* one codepoint ("a", " ", "U+65E5", "U+3000", ...) or one ANSI escape    *)
(* sequence ("ESC[0m", "ESC[48;2;#...m", ...).  Option<T> is modelled as a  *)
(* sequence of length 0 (None) or 1 (Some).                                *)
(***************************************************************************)
EXTENDS Integers, Sequences, FiniteSets, TLC

VARIABLES highlight_state, language, background, raw_buffer,
          phase, added, renderedCalls, call, ret

vars == <<highlight_state, language, background, raw_buffer,
          phase, added, renderedCalls, call, ret>>

blockVars == <<highlight_state, language, background, raw_buffer,
               phase, added, renderedCalls>>

(***************************************************************************)
(* Bounds of the model.                                                    *)
(***************************************************************************)
MaxLen == 4
MaxWidth == 10
MaxLines == 3
MaxRenders == 2

(***************************************************************************)
(* Codepoints.                                                             *)
(***************************************************************************)
\* U+65E5, U+672C, U+8A9E: CJK ideographs; U+3000: ideographic (fullwidth) space.
CJK == {"U+65E5", "U+672C", "U+8A9E"}
FullwidthSpace == "U+3000"
CODEPAD_TOP == "U+2584"
CODEPAD_BOTTOM == "U+2580"
RESET == "ESC[0m"
Newline == "\n"

\* char::is_whitespace (Unicode White_Space) on the codepoints used here.
is_whitespace(c) == c \in {" ", FullwidthSpace, "\t", Newline}

\* unicode_width: terminal columns of one codepoint.
CharWidth(c) == IF c \in CJK \cup {FullwidthSpace} THEN 2 ELSE 1

\* Number of UTF-8 bytes of one codepoint (str::len counts these).
Utf8Len(c) ==
    IF c \in CJK \cup {FullwidthSpace, CODEPAD_TOP, CODEPAD_BOTTOM} THEN 3 ELSE 1

\* unicode_width::UnicodeWidthStr::width
RECURSIVE StrWidth(_)
StrWidth(s) == IF s = <<>> THEN 0 ELSE CharWidth(Head(s)) + StrWidth(Tail(s))

\* str::len (bytes)
RECURSIVE ByteLen(_)
ByteLen(s) == IF s = <<>> THEN 0 ELSE Utf8Len(Head(s)) + ByteLen(Tail(s))

\* str::repeat / char.to_string().repeat(n)
Repeat(c, n) == [i \in 1..n |-> c]

\* usize::saturating_sub
saturating_sub(a, b) == IF a >= b THEN a - b ELSE 0

min(a, b) == IF a <= b THEN a ELSE b

\* Option<T>
None == <<>>
Some(x) == <<x>>

(***************************************************************************)
(* External collaborators of this crate (streamdown-ansi, streamdown-      *)
(* syntax, the crate's lib.rs): modelled at their boundary.                *)
(***************************************************************************)
\* RenderStyle: the three colors this module reads (already hex strings).
style == [dark |-> "#1a1a1a", grey |-> "#808080", symbol |-> "#ffcc66"]

\* crate::bg_color / crate::fg_color: one ANSI escape sequence selecting a color.
bg_color(c) == "ESC[48;2;" \o c \o "m"
fg_color(c) == "ESC[38;2;" \o c \o "m"

\* The escape the highlighter puts in front of styled text.
HL == "ESC[hl]"

EscapeTokens ==
    {RESET, HL, bg_color(style.dark), fg_color(style.grey), fg_color(style.symbol)}

\* streamdown_ansi::utils::visible: the string without its escape sequences.
RECURSIVE visible(_)
visible(s) ==
    IF s = <<>> THEN <<>>
    ELSE IF Head(s) \in EscapeTokens THEN visible(Tail(s))
    ELSE <<Head(s)>> \o visible(Tail(s))

\* streamdown_ansi::utils::visible_length: display width of the visible text.
visible_length(s) == StrWidth(visible(s))

\* Highlighter::new_highlight_state: a fresh continuation state for a language.
\* The state is the language and the lines it has consumed so far, in order.
new_highlight_state(lang) == [lang |-> lang, fed |-> <<>>]

\* Highlighter::highlight_line_with_state: the styled line, and the state advanced.
\* The plain "text" state is the no-highlight pass-through.
highlight_line_with_state(line, st) ==
    [out   |-> IF st.lang = <<"t", "e", "x", "t">> THEN line ELSE <<HL>> \o line,
     state |-> [st EXCEPT !.fed = Append(@, line)]]

(***************************************************************************)
(* code_wrap                                                               *)
(***************************************************************************)
\* text.chars().take_while(|c| c.is_whitespace()).count()
RECURSIVE LeadingWhitespace(_)
LeadingWhitespace(s) ==
    IF s = <<>> \/ ~is_whitespace(Head(s)) THEN 0
    ELSE 1 + LeadingWhitespace(Tail(s))

\* str::trim_start
trim_start(s) == SubSeq(s, LeadingWhitespace(s) + 1, Len(s))

\* l.trim().is_empty()
TrimIsEmpty(l) == \A i \in 1..Len(l) : is_whitespace(l[i])

\* The first pushed line: the indentation rebuilt, then the first run.
FirstLine(indent, line) == Repeat(" ", indent) \o line

\* Mutant: each run is cut one codepoint too late.
RunEndOffByOne(start, effective_width, n) == min(start + effective_width + 1, n)

\* The end index of the run that starts at index start (0-based, exclusive end).
RunEnd(start, effective_width, n) == min(start + effective_width, n)

\* The while loop cutting chars into lines.
RECURSIVE WrapLoop(_, _, _, _, _)
WrapLoop(chars, effective_width, indent, start, lines) ==
    IF start < Len(chars)
    THEN LET end  == RunEnd(start, effective_width, Len(chars))
             line == SubSeq(chars, start + 1, end)
         IN  WrapLoop(chars, effective_width, indent, end,
                      Append(lines, IF start = 0 THEN FirstLine(indent, line)
                                                 ELSE line))
    ELSE lines

\* Remove trailing empty lines.
RECURSIVE PopTrailing(_)
PopTrailing(lines) ==
    IF lines # <<>> /\ TrimIsEmpty(lines[Len(lines)])
    THEN PopTrailing(SubSeq(lines, 1, Len(lines) - 1))
    ELSE lines

\* width.saturating_sub(4).saturating_sub(indent)
EffectiveWidth(width, indent) == saturating_sub(saturating_sub(width, 4), indent)

\* The body of code_wrap once wrapping is known to be enabled and text non-empty.
WrapEnabled(text, width) ==
    LET indent == LeadingWhitespace(text)
        content == trim_start(text)
        effective_width == EffectiveWidth(width, indent)
    IN  IF content = <<>> THEN [indent |-> indent, lines |-> <<text>>]
        ELSE IF effective_width = 0 \/ Len(content) <= effective_width
             THEN [indent |-> indent, lines |-> <<text>>]
        ELSE
          LET lines == PopTrailing(WrapLoop(content, effective_width, indent, 0, <<>>))
          IN  [indent |-> indent,
               lines  |-> IF lines = <<>> THEN <<text>> ELSE lines]

\* Mutant: the pretty_broken flag is not consulted.
code_wrap_flag_ignored(text, width, pretty_broken) ==
    IF text = <<>> THEN [indent |-> 0, lines |-> << <<>> >>]
    ELSE WrapEnabled(text, width)

code_wrap(text, width, pretty_broken) ==
    IF text = <<>> THEN [indent |-> 0, lines |-> << <<>> >>]
    ELSE IF ~pretty_broken THEN [indent |-> 0, lines |-> <<text>>]
    ELSE WrapEnabled(text, width)

\* Mutant: the plain border is drawn whatever pretty_pad says.
BorderRowPlainOnly(glyph, width, left_margin, pretty_pad) ==
    left_margin \o <<bg_color(style.dark)>> \o Repeat(" ", width) \o <<RESET>>

(***************************************************************************)
(* render_code_start / render_code_end                                     *)
(***************************************************************************)
\* The border row both functions push first.
BorderRow(glyph, width, left_margin, pretty_pad) ==
    IF pretty_pad
    THEN left_margin \o <<fg_color(style.grey), bg_color(style.dark)>>
           \o Repeat(glyph, width) \o <<RESET>>
    ELSE left_margin \o <<bg_color(style.dark)>> \o Repeat(" ", width) \o <<RESET>>

\* Mutant: the padding is computed from the label's byte length.
LabelPaddingBytes(lang, width) == saturating_sub(width, ByteLen(lang) + 2)

\* width.saturating_sub(lang_width + 2), lang_width the display width.
LabelPadding(lang, width) == saturating_sub(width, StrWidth(lang) + 2)

\* The language label row.
LabelRow(lang, width, left_margin) ==
    left_margin \o <<bg_color(style.dark), fg_color(style.symbol)>>
      \o <<"[">> \o lang \o <<"]">> \o Repeat(" ", LabelPadding(lang, width))
      \o <<RESET>>

\* if let Some(lang) = language { if !lang.is_empty() && lang != "text" {..} }
HasLabel(lang_opt) ==
    lang_opt # None /\ lang_opt[1] # <<>> /\ lang_opt[1] # <<"t", "e", "x", "t">>

render_code_start(lang_opt, width, left_margin, pretty_pad) ==
    <<BorderRow(CODEPAD_TOP, width, left_margin, pretty_pad)>>
      \o (IF HasLabel(lang_opt) THEN <<LabelRow(lang_opt[1], width, left_margin)>>
                                ELSE <<>>)

render_code_end(width, left_margin, pretty_pad) ==
    <<BorderRow(CODEPAD_BOTTOM, width, left_margin, pretty_pad)>>

\* Mutant: the segment is highlighted with a copy of the state, which is not advanced.
HighlightSegmentStale(code_line, hs) ==
    IF hs # None
    THEN [out |-> highlight_line_with_state(code_line, hs[1]).out, hs |-> hs]
    ELSE [out |-> code_line, hs |-> None]

(***************************************************************************)
(* render_code_line                                                        *)
(***************************************************************************)
\* Highlight one wrapped segment with the carried state, if there is one.
HighlightSegment(code_line, hs) ==
    IF hs # None
    THEN LET h == highlight_line_with_state(code_line, hs[1])
         IN  [out |-> h.out, hs |-> Some(h.state)]
    ELSE [out |-> code_line, hs |-> None]

\* Mutant: the row is not padded.
CodeRowUnpadded(i, highlighted, indent, width, left_margin) ==
    left_margin \o <<bg_color(style.dark)>>
      \o Repeat(" ", IF i = 0 THEN 0 ELSE indent) \o highlighted \o <<RESET>>

\* The row built for segment i (0-based) from its highlighted text.
CodeRow(i, highlighted, indent, width, left_margin) ==
    LET line_indent == IF i = 0 THEN 0 ELSE indent
        visible_len == visible_length(highlighted) + line_indent
        padding     == saturating_sub(width, visible_len)
    IN  left_margin \o <<bg_color(style.dark)>> \o Repeat(" ", line_indent)
          \o highlighted \o Repeat(" ", padding) \o <<RESET>>

\* for (i, code_line) in wrapped_lines.iter().enumerate()
RECURSIVE RenderLoop(_, _, _, _, _, _, _)
RenderLoop(wrapped, i, indent, hs, width, left_margin, result) ==
    IF i >= Len(wrapped) THEN [rows |-> result, hs |-> hs]
    ELSE LET h == HighlightSegment(wrapped[i + 1], hs)
         IN  RenderLoop(wrapped, i + 1, indent, h.hs, width, left_margin,
                        Append(result, CodeRow(i, h.out, indent, width, left_margin)))

render_code_line(line, hs, width, left_margin, pretty_broken) ==
    LET w == code_wrap(line, width, pretty_broken)
        r == RenderLoop(w.lines, 0, w.indent, hs, width, left_margin, <<>>)
    IN  [rows |-> IF r.rows = <<>>
                  THEN <<left_margin \o <<bg_color(style.dark)>>
                           \o Repeat(" ", width) \o <<RESET>>>>
                  ELSE r.rows,
         hs   |-> r.hs]

(***************************************************************************)
(* colors.rs                                                               *)
(***************************************************************************)
COLODORE ==
    [n \in {"black", "dark_grey", "grey", "light_grey", "white", "dark_red", "red",
            "brown", "orange", "yellow", "light_green", "green", "cyan",
            "light_blue", "blue", "purple"} |->
       CASE n = "black"       -> "#000000"
         [] n = "dark_grey"   -> "#4a4a4a"
         [] n = "grey"        -> "#7b7b7b"
         [] n = "light_grey"  -> "#b2b2b2"
         [] n = "white"       -> "#ffffff"
         [] n = "dark_red"    -> "#813338"
         [] n = "red"         -> "#c46c71"
         [] n = "brown"       -> "#553800"
         [] n = "orange"      -> "#8e5029"
         [] n = "yellow"      -> "#edf171"
         [] n = "light_green" -> "#a9ff9f"
         [] n = "green"       -> "#56ac4d"
         [] n = "cyan"        -> "#75cec8"
         [] n = "light_blue"  -> "#706deb"
         [] n = "blue"        -> "#2e2c9b"
         [] n = "purple"      -> "#8e3c97"]

\* Mutant: an unknown name falls back to black.
resolve_color_default(color) ==
    IF color \in DOMAIN COLODORE THEN COLODORE[color] ELSE "#000000"

\* COLODORE.get(color).copied().unwrap_or(color)
resolve_color(color) ==
    IF color \in DOMAIN COLODORE THEN COLODORE[color] ELSE color

(***************************************************************************)
(* CodeBlockState                                                          *)
(***************************************************************************)
\* language.as_deref().unwrap_or("text")
LangOrText(lang_opt) == IF lang_opt = None THEN <<"t", "e", "x", "t">> ELSE lang_opt[1]

\* The highlight state start() installs.
StartHighlightState(lang_opt) == Some(new_highlight_state(LangOrText(lang_opt)))

\* The highlight state end() leaves.
EndHighlightState == None

\* The raw buffer after add_raw_line(line).
add_raw_line(buf, line) ==
    (IF buf # <<>> THEN Append(buf, Newline) ELSE buf) \o line

\* raw_code()
raw_code == raw_buffer

(***************************************************************************)
(* Inputs.                                                                 *)
(***************************************************************************)
Alphabet == {"a", " ", "U+65E5", FullwidthSpace}

RECURSIVE SeqsUpTo(_, _)
SeqsUpTo(S, n) ==
    IF n = 0 THEN {<<>>}
    ELSE LET shorter == SeqsUpTo(S, n - 1)
         IN  shorter \cup {Append(s, c) : s \in {t \in shorter : Len(t) = n - 1}, c \in S}

\* Lines longer than MaxLen that the wide-glyph cases need.
LongLines ==
    {Repeat("U+65E5", 5), Repeat("U+65E5", 6),
     <<FullwidthSpace>> \o Repeat("U+65E5", 5)}

Lines == SeqsUpTo(Alphabet, MaxLen) \cup LongLines
Widths == 0..MaxWidth
Margins == {<<>>, <<" ", " ">>}

Rs == <<"r", "s">>
Text == <<"t", "e", "x", "t">>
Nihongo == <<"U+65E5", "U+672C", "U+8A9E">>
Languages == {None, Some(<<>>), Some(Text), Some(Rs), Some(Nihongo)}

PaletteNames ==
    {"black", "dark_grey", "grey", "light_grey", "white", "dark_red", "red",
     "brown", "orange", "yellow", "light_green", "green", "cyan",
     "light_blue", "blue", "purple"}
Colors ==
    PaletteNames \cup {COLODORE[n] : n \in DOMAIN COLODORE}
      \cup {"#abcdef", "#ff0000", "not_a_color", "", "Yellow", "gray", "#EDF171"}

\* The inputs of the state machine Spec.
BlockLines == {<<>>, <<"a">>, <<" ", "a", "a", "a">>}
BlockWidths == {6}
BlockLanguages == {None, Some(Rs)}

(***************************************************************************)
(* State machine.                                                          *)
(***************************************************************************)
NoCall ==
    [op |-> "new", line |-> <<>>, width |-> 0, pretty_broken |-> FALSE,
     language |-> None, pretty_pad |-> FALSE, left_margin |-> <<>>, color |-> ""]

NoRet == [indent |-> 0, lines |-> <<>>, str |-> ""]

\* CodeBlockState::new
Init ==
    /\ highlight_state = None
    /\ language = None
    /\ background = ""
    /\ raw_buffer = <<>>
    /\ phase = "new"
    /\ added = <<>>
    /\ renderedCalls = <<>>
    /\ call = NoCall
    /\ ret = NoRet

\* Mutant: start() forgets raw_buffer.clear().
StartKeepsRawBuffer(lang_opt) ==
    /\ language' = lang_opt
    /\ background' = bg_color(style.dark)
    /\ raw_buffer' = raw_buffer
    /\ highlight_state' = StartHighlightState(lang_opt)
    /\ phase' = "open"
    /\ added' = <<>>
    /\ renderedCalls' = <<>>
    /\ call' = [NoCall EXCEPT !.op = "start", !.language = lang_opt]
    /\ ret' = NoRet

\* CodeBlockState::start
Start(lang_opt) ==
    /\ language' = lang_opt
    /\ background' = bg_color(style.dark)
    /\ raw_buffer' = <<>>
    /\ highlight_state' = StartHighlightState(lang_opt)
    /\ phase' = "open"
    /\ added' = <<>>
    /\ renderedCalls' = <<>>
    /\ call' = [NoCall EXCEPT !.op = "start", !.language = lang_opt]
    /\ ret' = NoRet

\* CodeBlockState::add_raw_line
AddRawLine(line) ==
    /\ raw_buffer' = add_raw_line(raw_buffer, line)
    /\ added' = Append(added, line)
    /\ call' = [NoCall EXCEPT !.op = "add_raw_line", !.line = line]
    /\ ret' = NoRet
    /\ UNCHANGED <<highlight_state, language, background, phase, renderedCalls>>

\* CodeBlockState::end
End ==
    /\ highlight_state' = EndHighlightState
    /\ language' = None
    /\ phase' = IF phase = "open" THEN "ended" ELSE phase
    /\ call' = [NoCall EXCEPT !.op = "end"]
    /\ ret' = NoRet
    /\ UNCHANGED <<background, raw_buffer, added, renderedCalls>>

\* render_code_line(line, state, width, left_margin, style, pretty_broken)
RenderCodeLine(line, width, left_margin, pretty_broken) ==
    LET r == render_code_line(line, highlight_state, width, left_margin, pretty_broken)
    IN  /\ highlight_state' = r.hs
        /\ renderedCalls' =
             Append(renderedCalls,
                    [line |-> line, width |-> width, pretty_broken |-> pretty_broken])
        /\ call' = [NoCall EXCEPT !.op = "render_code_line", !.line = line,
                                  !.width = width, !.left_margin = left_margin,
                                  !.pretty_broken = pretty_broken]
        /\ ret' = [NoRet EXCEPT !.lines = r.rows]
        /\ UNCHANGED <<language, background, raw_buffer, phase, added>>

\* code_wrap(text, width, pretty_broken)
CodeWrap(text, width, pretty_broken) ==
    LET w == code_wrap(text, width, pretty_broken)
    IN  /\ call' = [NoCall EXCEPT !.op = "code_wrap", !.line = text, !.width = width,
                                  !.pretty_broken = pretty_broken]
        /\ ret' = [NoRet EXCEPT !.indent = w.indent, !.lines = w.lines]
        /\ UNCHANGED blockVars

\* render_code_start(language, width, left_margin, style, pretty_pad)
RenderCodeStart(lang_opt, width, left_margin, pretty_pad) ==
    /\ call' = [NoCall EXCEPT !.op = "render_code_start", !.language = lang_opt,
                              !.width = width, !.left_margin = left_margin,
                              !.pretty_pad = pretty_pad]
    /\ ret' = [NoRet EXCEPT
                 !.lines = render_code_start(lang_opt, width, left_margin, pretty_pad)]
    /\ UNCHANGED blockVars

\* render_code_end(width, left_margin, style, pretty_pad)
RenderCodeEnd(width, left_margin, pretty_pad) ==
    /\ call' = [NoCall EXCEPT !.op = "render_code_end", !.width = width,
                              !.left_margin = left_margin, !.pretty_pad = pretty_pad]
    /\ ret' = [NoRet EXCEPT !.lines = render_code_end(width, left_margin, pretty_pad)]
    /\ UNCHANGED blockVars

\* resolve_color(color)
ResolveColor(color) ==
    /\ call' = [NoCall EXCEPT !.op = "resolve_color", !.color = color]
    /\ ret' = [NoRet EXCEPT !.str = resolve_color(color)]
    /\ UNCHANGED blockVars

\* One CodeBlockState driven through start / add_raw_line / render_code_line / end.
Next ==
    \/ \E l \in BlockLanguages : Start(l)
    \/ /\ Len(added) < MaxLines
       /\ \E line \in BlockLines : AddRawLine(line)
    \/ /\ Len(renderedCalls) < MaxRenders
       /\ \E line \in BlockLines, w \in BlockWidths, pb \in BOOLEAN :
            RenderCodeLine(line, w, <<>>, pb)
    \/ End

Spec == Init /\ [][Next]_vars

\* No function has been applied yet to this CodeBlockState.
Fresh == call.op \in {"new", "start"}

\* The rendering functions, each applied once to inputs drawn from Lines, Widths,
\* Margins, Languages and Colors, on a CodeBlockState that is new or just started.
NextFn ==
    \/ \E l \in BlockLanguages : Start(l)
    \/ /\ Fresh
       /\ \E line \in Lines, w \in Widths, m \in Margins, pb \in BOOLEAN :
            RenderCodeLine(line, w, m, pb)
    \/ /\ Fresh
       /\ \E line \in Lines, w \in Widths, pb \in BOOLEAN : CodeWrap(line, w, pb)
    \/ /\ Fresh
       /\ \E l \in Languages, w \in Widths, m \in Margins, pp \in BOOLEAN :
            RenderCodeStart(l, w, m, pp)
    \/ /\ Fresh
       /\ \E w \in Widths, m \in Margins, pp \in BOOLEAN : RenderCodeEnd(w, m, pp)
    \/ /\ Fresh
       /\ \E c \in Colors : ResolveColor(c)

SpecFn == Init /\ [][NextFn]_vars

(***************************************************************************)
(* Helpers of the properties.                                              *)
(***************************************************************************)
\* lines joined by single newline characters.
RECURSIVE Join(_)
Join(ls) ==
    IF ls = <<>> THEN <<>>
    ELSE IF Len(ls) = 1 THEN ls[1]
    ELSE ls[1] \o <<Newline>> \o Join(Tail(ls))

\* How many times token c occurs in s.
Count(c, s) == Cardinality({i \in 1..Len(s) : s[i] = c})

\* A rendered row without its left margin.
AfterMargin(row) == SubSeq(row, Len(call.left_margin) + 1, Len(row))

\* The k-th run of e codepoints of content (k from 1).
Chunk(content, e, k) == SubSeq(content, (k - 1) * e + 1, min(k * e, Len(content)))

\* The number of runs of e codepoints content is cut into.
NChunks(content, e) == (Len(content) + e - 1) \div e

\* The call's line seen as the claims describe it.
CallIndent == LeadingWhitespace(call.line)
CallContent == SubSeq(call.line, CallIndent + 1, Len(call.line))
CallE == IF call.width - 4 - CallIndent > 0 THEN call.width - 4 - CallIndent ELSE 0

\* code_wrap was applied with wrapping enabled and it had to split the line.
SplitCase(op) ==
    /\ call.op = op
    /\ call.pretty_broken
    /\ CallE > 0
    /\ Len(CallContent) > CallE

\* The i-th returned segment without the indentation put before the first run.
Run(i) ==
    IF i = 1 THEN SubSeq(ret.lines[1], CallIndent + 1, Len(ret.lines[1]))
    ELSE ret.lines[i]

(***************************************************************************)
(* C1: after start(), raw_code() is the lines passed to add_raw_line,      *)
(* in order and verbatim, joined by single newlines (n lines, n-1          *)
(* separators), whatever was rendered in between.                          *)
(***************************************************************************)
C1_RawCodeJoinsLines ==
    (phase = "open" /\ Len(added) >= 1) =>
        /\ raw_code = Join(added)
        /\ Count(Newline, raw_code) = Len(added) - 1

(***************************************************************************)
(* C2 as claimed: when code_wrap splits a line, the returned segments are  *)
(* the content cut into consecutive runs of exactly E codepoints, only     *)
(* the final run possibly shorter: all of the content, in order.           *)
(***************************************************************************)
C2_RunsCutContent ==
    SplitCase("code_wrap") =>
        /\ ret.indent = CallIndent
        /\ Len(ret.lines) = NChunks(CallContent, CallE)
        /\ \A i \in 1..Len(ret.lines) :
             /\ Run(i) = Chunk(CallContent, CallE, i)
             /\ (i < Len(ret.lines) => Len(Run(i)) = CallE)
             /\ Len(Run(i)) \in 1..CallE

(***************************************************************************)
(* C2 amended: when code_wrap splits a line, the returned segments are,    *)
(* in order, the consecutive runs of exactly E codepoints of the content   *)
(* (only the content's final run possibly shorter), except that the        *)
(* trailing runs that hold only whitespace are dropped.                    *)
(***************************************************************************)
C2_RunsCutContentButTrailingBlank ==
    SplitCase("code_wrap") =>
        /\ ret.indent = CallIndent
        /\ Len(ret.lines) \in 1..NChunks(CallContent, CallE)
        /\ \A i \in 1..Len(ret.lines) :
             /\ Run(i) = Chunk(CallContent, CallE, i)
             /\ (i < NChunks(CallContent, CallE) => Len(Run(i)) = CallE)
             /\ Len(Run(i)) \in 1..CallE
        /\ \A k \in (Len(ret.lines) + 1)..NChunks(CallContent, CallE) :
             \A j \in 1..Len(Chunk(CallContent, CallE, k)) :
                 is_whitespace(Chunk(CallContent, CallE, k)[j])
        /\ \E j \in 1..Len(ret.lines[Len(ret.lines)]) :
             ~is_whitespace(ret.lines[Len(ret.lines)][j])

\* C2 witness: a split into a full run and a shorter final run.
C2_Witness ==
    /\ SplitCase("code_wrap")
    /\ CallE >= 2
    /\ Len(ret.lines) = 2
    /\ Len(Run(2)) < CallE

(***************************************************************************)
(* C3: when code_wrap splits a line, the first segment is the line's own   *)
(* indentation, codepoint for codepoint, followed by the first run, so it  *)
(* is a prefix of the input line; continuation segments get no             *)
(* indentation.                                                            *)
(***************************************************************************)
C3_FirstSegmentKeepsIndentation ==
    SplitCase("code_wrap") =>
        /\ ret.lines[1] = SubSeq(call.line, 1, CallIndent + CallE)
        /\ \A i \in 2..Len(ret.lines) : ret.lines[i] = Chunk(CallContent, CallE, i)

(***************************************************************************)
(* C4: with wrapping enabled and width - 4 - indent > 0, every row of      *)
(* render_code_line has, after the left margin, a visible display width    *)
(* equal to the configured width, wide characters included.                *)
(***************************************************************************)
C4_RowsPaddedToWidth ==
    (call.op = "render_code_line" /\ call.pretty_broken /\ CallE > 0) =>
        \A i \in 1..Len(ret.lines) :
            StrWidth(visible(AfterMargin(ret.lines[i]))) = call.width

(***************************************************************************)
(* C5 as claimed: render_code_line returns one row per segment of          *)
(* code_wrap, never zero rows, whether a block is open or not; for the     *)
(* empty line it returns exactly one row consisting of the margin, the     *)
(* background color, exactly width spaces and the reset code; and          *)
(* code_wrap("", width, true) is (0, [""]).                                *)
(***************************************************************************)
C5_EmptyLineRowExact ==
    /\ call.op = "render_code_line" =>
         /\ Len(ret.lines) >= 1
         /\ Len(ret.lines) =
              Len(code_wrap(call.line, call.width, call.pretty_broken).lines)
         /\ call.line = <<>> =>
              ret.lines = <<call.left_margin \o <<bg_color(style.dark)>>
                              \o [i \in 1..call.width |-> " "] \o <<RESET>>>>
    /\ (call.op = "code_wrap" /\ call.line = <<>>) =>
         (ret.indent = 0 /\ ret.lines = << <<>> >>)

(***************************************************************************)
(* C5 amended: render_code_line returns one row per segment of code_wrap,  *)
(* never zero rows, whether a block is open or not; for the empty line it  *)
(* returns exactly one row: with no block open the margin, the background  *)
(* color, exactly width spaces and the reset code; with a block open the   *)
(* margin, the background color, the highlighter's output for the empty    *)
(* segment, the spaces that pad that output's visible width to width, and  *)
(* the reset code; and code_wrap("", width, true) is (0, [""]).            *)
(***************************************************************************)
C5_NeverZeroRows ==
    /\ call.op = "render_code_line" =>
         /\ Len(ret.lines) >= 1
         /\ Len(ret.lines) =
              Len(code_wrap(call.line, call.width, call.pretty_broken).lines)
         /\ (call.line = <<>> /\ highlight_state = None) =>
              ret.lines = <<call.left_margin \o <<bg_color(style.dark)>>
                              \o [i \in 1..call.width |-> " "] \o <<RESET>>>>
         /\ (call.line = <<>> /\ highlight_state # None) =>
              LET styled == highlight_line_with_state(<<>>, highlight_state[1]).out
                  shown  == StrWidth(visible(styled))
              IN  ret.lines = <<call.left_margin \o <<bg_color(style.dark)>> \o styled
                                  \o [i \in 1..(call.width - shown) |-> " "]
                                  \o <<RESET>>>>
    /\ (call.op = "code_wrap" /\ call.line = <<>>) =>
         (ret.indent = 0 /\ ret.lines = << <<>> >>)

\* C5 witness: the empty line rendered at a positive width inside an open block
\* of a highlighted language, the row holding the highlighter's output.
C5_Witness ==
    /\ call.op = "render_code_line"
    /\ call.line = <<>>
    /\ call.pretty_broken
    /\ call.width > 0
    /\ highlight_state # None
    /\ highlight_state[1].lang = Rs
    /\ Len(ret.lines) = 1
    /\ Count(HL, ret.lines[1]) = 1
    /\ Count(" ", AfterMargin(ret.lines[1])) = call.width

(***************************************************************************)
(* C6: with wrapping disabled code_wrap returns indent 0 and the input     *)
(* line, unchanged, as its only segment.                                   *)
(***************************************************************************)
C6_DisabledReturnsLine ==
    (call.op = "code_wrap" /\ ~call.pretty_broken) =>
        (ret.indent = 0 /\ ret.lines = <<call.line>>)

\* C6 witness: an indented line that wrapping would have split, left whole.
C6_Witness ==
    /\ call.op = "code_wrap"
    /\ ~call.pretty_broken
    /\ CallIndent > 0
    /\ CallE > 0
    /\ Len(CallContent) > CallE
    /\ ret.lines = <<call.line>>

(***************************************************************************)
(* C7: render_code_start emits a label row exactly when a language is      *)
(* given that is neither empty nor "text"; the row shows [language]        *)
(* followed by max(0, width - displaywidth(language) - 2) spaces, so its   *)
(* visible display width is the configured width whenever                  *)
(* width >= displaywidth(language) + 2, in pretty and in plain mode.       *)
(***************************************************************************)
C7_LabelRow ==
    call.op = "render_code_start" =>
        LET labelled == call.language \notin {None, Some(<<>>), Some(Text)}
        IN  /\ Len(ret.lines) = IF labelled THEN 2 ELSE 1
            /\ labelled =>
                 LET lang == call.language[1]
                     w    == StrWidth(lang)
                     shown == visible(AfterMargin(ret.lines[2]))
                 IN  /\ shown = <<"[">> \o lang \o <<"]">>
                                  \o [i \in 1..(call.width - w - 2) |-> " "]
                     /\ call.width >= w + 2 => StrWidth(shown) = call.width

\* C7 witness: a label of 3 codepoints, 9 bytes and 6 columns that fits the width.
C7_Witness ==
    /\ call.op = "render_code_start"
    /\ call.language = Some(Nihongo)
    /\ call.width >= 8
    /\ Len(ret.lines) = 2

(***************************************************************************)
(* C8: the first row of render_code_start and the only row of              *)
(* render_code_end are chosen by pretty_pad alone: the border glyph        *)
(* exactly width times when it is set, no border glyph and exactly width   *)
(* spaces when it is not; render_code_end returns exactly one row.         *)
(***************************************************************************)
C8_BorderByPrettyPad ==
    LET glyph == IF call.op = "render_code_start" THEN CODEPAD_TOP ELSE CODEPAD_BOTTOM
        body  == AfterMargin(ret.lines[1])
    IN  call.op \in {"render_code_start", "render_code_end"} =>
          /\ call.op = "render_code_end" => Len(ret.lines) = 1
          /\ call.pretty_pad =>
               (Count(glyph, body) = call.width /\ Count(" ", body) = 0)
          /\ ~call.pretty_pad =>
               (Count(CODEPAD_TOP, body) = 0 /\ Count(CODEPAD_BOTTOM, body) = 0
                  /\ Count(" ", body) = call.width)

\* C8 witness: a pretty bottom border of positive width behind a margin.
C8_Witness ==
    /\ call.op = "render_code_end"
    /\ call.pretty_pad
    /\ call.width > 0
    /\ call.left_margin # <<>>
    /\ Len(ret.lines) = 1

(***************************************************************************)
(* C9: resolve_color returns the hex value of each of the sixteen palette  *)
(* names ("yellow" gives "#edf171"), returns every other string            *)
(* unchanged, and resolving its result again changes nothing.              *)
(***************************************************************************)
C9_ResolveColor ==
    call.op = "resolve_color" =>
        /\ Cardinality(PaletteNames) = 16
        /\ DOMAIN COLODORE = PaletteNames
        /\ call.color \in PaletteNames => ret.str = COLODORE[call.color]
        /\ call.color \notin PaletteNames => ret.str = call.color
        /\ call.color = "yellow" => ret.str = "#edf171"
        /\ call.color = "#abcdef" => ret.str = "#abcdef"
        /\ resolve_color(ret.str) = ret.str

\* C9 witness: a palette name resolved to a hex value that is not the name.
C9_Witness ==
    /\ call.op = "resolve_color"
    /\ call.color = "yellow"
    /\ ret.str # call.color

(***************************************************************************)
(* C10: the highlight state exists exactly while a block is open; it was   *)
(* created for the block's language ("text" when absent) and has been      *)
(* advanced by every wrapped segment of every render_code_line call since  *)
(* start(), in line order and segment order; a render_code_line call with  *)
(* no block open returns the segments unhighlighted.                       *)
(***************************************************************************)
RECURSIVE SegmentsOf(_)
SegmentsOf(calls) ==
    IF calls = <<>> THEN <<>>
    ELSE code_wrap(calls[1].line, calls[1].width, calls[1].pretty_broken).lines
           \o SegmentsOf(Tail(calls))

C10_HighlightStateFollowsBlock ==
    /\ (phase = "open") <=> (highlight_state # None)
    /\ phase = "open" =>
         /\ highlight_state[1].lang = (IF language = None THEN Text ELSE language[1])
         /\ highlight_state[1].fed = SegmentsOf(renderedCalls)
    /\ (call.op = "render_code_line" /\ phase # "open") =>
         LET w == code_wrap(call.line, call.width, call.pretty_broken)
         IN  /\ Len(ret.lines) = Len(w.lines)
             /\ \A i \in 1..Len(ret.lines) :
                  /\ Count(HL, ret.lines[i]) = 0
                  /\ LET ind == IF i = 1 THEN 0 ELSE w.indent
                     IN  SubSeq(visible(AfterMargin(ret.lines[i])),
                                ind + 1, ind + Len(w.lines[i])) = w.lines[i]

\* C10 witness: two lines rendered in an open block, one of them in three segments.
C10_Witness ==
    /\ phase = "open"
    /\ Len(renderedCalls) = 2
    /\ Len(highlight_state[1].fed) = 4
    /\ highlight_state[1].fed[1] # highlight_state[1].fed[4]

(***************************************************************************)
(* C11: the raw-source accumulator holds the most recent block only:       *)
(* every start() leaves it empty whatever it held before, while end() and  *)
(* render_code_line leave it as it was, so after end() raw_code() keeps    *)
(* returning what it returned when the block ended, until the next         *)
(* start().                                                                *)
(***************************************************************************)
C11_RawBufferFrame ==
    [][ /\ call'.op = "start" => raw_code' = <<>>
        /\ call'.op \in {"end", "render_code_line"} => raw_code' = raw_code
        /\ (phase = "ended" /\ call'.op # "add_raw_line" /\ call'.op # "start") =>
             raw_code' = raw_code ]_vars

\* C11 witness: a block that accumulated two lines has ended, a line was rendered
\* after that, and the accumulated source is still there.
C11_Witness ==
    /\ phase = "ended"
    /\ call.op = "render_code_line"
    /\ Len(added) = 2
    /\ raw_code = added[1] \o <<Newline>> \o added[2]
    /\ raw_code # <<>>

====
